---------------------------- MODULE Spec2Model ----------------------------
(***************************************************************************)
(* A model of the nbody simulator: the scalar algebra of math.rs (integer  *)
(* instances with wrapping arithmetic, f32 as a fixed-point value with the *)
(* IEEE special values), vec2, the force law, the fork-join derivative     *)
(* field diff, the RK4 integrator and the driver loop of main.             *)
(***************************************************************************)
EXTENDS Integers, Sequences, FiniteSets, TLC

(***************************************************************************)
(* Bounds of the model.                                                    *)
(***************************************************************************)
\* largest number of bodies in a state
MaxBodies == 3
\* largest exponent handed to pow
MaxExp == 5
\* largest number of integrate calls in one run of the pure-function spec
MaxCalls == 2
\* largest number of rendered frames in one run of the driver
MaxFrames == 2
\* largest number of window events handled in one run of the driver
MaxEvents == 2

(***************************************************************************)
(* Integer scalar instances (math.rs 17-44, 55-74).  A value of an integer *)
(* type is an integer of its range; arithmetic wraps modulo 2^Width.       *)
(***************************************************************************)
\* u8 and i8 are the narrowest instances of each macro (math.rs 43-44, 73)
Width == 8

Modulus == 2 ^ Width

IntTypes == {"u8", "i8"}

Signed(ty) == ty = "i8"

\* the value of the type whose two's complement bit pattern is v mod 2^Width
WrapT(ty, v) ==
    IF Signed(ty)
    THEN ((v + Modulus \div 2) % Modulus) - Modulus \div 2
    ELSE v % Modulus

IntDom(ty) == { WrapT(ty, v) : v \in 0 .. Modulus - 1 }

\* const ZERO: $t = 0 as $t
IZero == 0

\* const ONE: $t = 1 as $t
IOne == 1

\* fn add(self, n) { self + n }
iadd(ty, a, b) == WrapT(ty, a + b)

\* fn sub(self, n) { self - n }
isub(ty, a, b) == WrapT(ty, a - b)

\* bitwise complement of a value of the type: !v = -v - 1
BitNot(ty, v) == WrapT(ty, (0 - v) - 1)

\* fn neg(self): -x for the signed instances; for the unsigned ones
\* !x.wrapping_add(1), in which the method call binds tighter than the !
ineg(ty, a) ==
    IF Signed(ty) THEN WrapT(ty, 0 - a) ELSE BitNot(ty, WrapT(ty, a + 1))

\* the trait's default sub: self.add(n.neg())
DefaultSub(ty, a, b) == iadd(ty, a, ineg(ty, b))

\* the trait's default neg: Self::ZERO.sub(self)
DefaultNeg(ty, a) == isub(ty, IZero, a)

\* fn mul(self, n) { self * n }
imul(ty, a, b) == WrapT(ty, a * b)

\* the trait's default pow: iter::repeat(self).take(n).fold(ONE, mul)
RECURSIVE DefaultPow(_, _, _)
DefaultPow(ty, x, n) ==
    IF n = 0 THEN IOne ELSE imul(ty, DefaultPow(ty, x, n - 1), x)

\* the loop of the primitive integer pow: exponentiation by squaring
RECURSIVE PowLoop(_, _, _, _)
PowLoop(ty, base, exp, acc) ==
    IF exp > 1
    THEN PowLoop(ty, imul(ty, base, base), exp \div 2,
                 IF exp % 2 = 1 THEN imul(ty, acc, base) ELSE acc)
    ELSE IF exp = 1 THEN imul(ty, acc, base) ELSE acc

\* a squaring loop that forgets the odd bits of the exponent
ipowDropsOddBits(ty, x, n) ==
    PowLoop(ty, x, IF n > 1 THEN 2 * (n \div 2) ELSE n, IOne)

\* ring_impl_int: fn pow(self, n) { x.pow(n) }, the primitive's pow
ipow(ty, x, n) == PowLoop(ty, x, n, IOne)


(***************************************************************************)
(* f32 (math.rs 43, 74, 90, 106).  A finite value is an integer count of   *)
(* 1/FScale units, every operation rounds its exact result toward zero to  *)
(* that grid, and the IEEE special values are kept: a division by zero     *)
(* gives an infinity or NaN, and NaN and the infinities propagate.  Sums   *)
(* and differences of finite values are exact.  Signed zeros are not kept. *)
(***************************************************************************)
\* 1.0 is FScale units, so that 0.5, 2.0 and 1.0/6.0 are all on the grid
FScale == 2 * 3

PosInf == 2 ^ 30

NegInf == 0 - PosInf

NaN == PosInf + 1

IsNaN(a) == a = NaN

IsInf(a) == a = PosInf \/ a = NegInf

IsFin(a) == ~IsNaN(a) /\ ~IsInf(a)

Abs(a) == IF a < 0 THEN 0 - a ELSE a

\* -1, 0 or 1; the infinities have the sign of their sentinel
Sgn(a) == IF a > 0 THEN 1 ELSE IF a < 0 THEN 0 - 1 ELSE 0

InfOf(s) == IF s < 0 THEN NegInf ELSE PosInf

\* the quotient a / b rounded toward zero, b # 0
TDiv(a, b) == Sgn(a) * Sgn(b) * (Abs(a) \div Abs(b))

\* Newton's iteration downward from r >= sqrt(v), v > 0
RECURSIVE IsqrtFrom(_, _)
IsqrtFrom(v, r) ==
    LET q == (r + v \div r) \div 2
    IN  IF q >= r THEN r ELSE IsqrtFrom(v, q)

\* the largest r with r * r <= v, v >= 0
Isqrt(v) == IF v = 0 THEN 0 ELSE IsqrtFrom(v, v)

\* the literal c.0
Lit(c) == c * FScale

FZero == 0

FOne == Lit(1)

\* fn neg(self) { -x }
fneg(a) == IF IsNaN(a) THEN NaN ELSE IF IsInf(a) THEN InfOf(0 - a) ELSE 0 - a

\* fn add(self, n) { self + n }
fadd(a, b) ==
    IF IsNaN(a) \/ IsNaN(b) THEN NaN
    ELSE IF IsInf(a) /\ IsInf(b) THEN (IF a = b THEN a ELSE NaN)
    ELSE IF IsInf(a) THEN a
    ELSE IF IsInf(b) THEN b
    ELSE a + b

\* fn sub(self, n) { self - n }
fsub(a, b) ==
    IF IsNaN(a) \/ IsNaN(b) THEN NaN
    ELSE IF IsInf(a) /\ IsInf(b) THEN (IF a = b THEN NaN ELSE a)
    ELSE IF IsInf(a) THEN a
    ELSE IF IsInf(b) THEN InfOf(0 - b)
    ELSE a - b

\* fn mul(self, n) { self * n }, and fn scale(self, n) { self * n }
fmul(a, b) ==
    IF IsNaN(a) \/ IsNaN(b) THEN NaN
    ELSE IF IsInf(a) \/ IsInf(b)
         THEN (IF a = 0 \/ b = 0 THEN NaN ELSE InfOf(Sgn(a) * Sgn(b)))
    ELSE TDiv(a * b, FScale)

\* the primitive a / b
fdiv(a, b) ==
    IF IsNaN(a) \/ IsNaN(b) THEN NaN
    ELSE IF IsInf(a) /\ IsInf(b) THEN NaN
    ELSE IF IsInf(a) THEN InfOf(Sgn(a) * (IF b < 0 THEN 0 - 1 ELSE 1))
    ELSE IF IsInf(b) THEN 0
    ELSE IF b = 0 THEN (IF a = 0 THEN NaN ELSE InfOf(a))
    ELSE TDiv(a * FScale, b)

\* fn sqrt(self) { self.sqrt() }
fsqrt(a) ==
    IF IsNaN(a) \/ a < 0 THEN NaN
    ELSE IF IsInf(a) THEN PosInf
    ELSE Isqrt(a * FScale)

\* ring_impl_float: fn pow(self, n) { x.powi(n as i32) }
RECURSIVE fpow(_, _)
fpow(x, n) == IF n = 0 THEN FOne ELSE fmul(fpow(x, n - 1), x)

(***************************************************************************)
(* vec2<f32> (math.rs 108-188)                                             *)
(***************************************************************************)
vec2(x, y) == [x |-> x, y |-> y]

\* const ZERO: vec2<T> = vec2 { x: T::ZERO, y: T::ZERO }
VZero == vec2(FZero, FZero)

\* a reduction identity that is not the zero vector
VOneOne == vec2(FOne, FOne)

\* impl Add for vec2
vadd(u, v) == vec2(fadd(u.x, v.x), fadd(u.y, v.y))

\* impl Sub for vec2
vsub(u, v) == vec2(fsub(u.x, v.x), fsub(u.y, v.y))

\* impl Neg for vec2
vneg(u) == vec2(fneg(u.x), fneg(u.y))

\* impl Mul<K> for vec2
vscale(u, k) == vec2(fmul(u.x, k), fmul(u.y, k))

\* fn normsq(self) { self.x.pow(2).add(self.y.pow(2)) }
normsq(u) == fadd(fpow(u.x, 2), fpow(u.y, 2))

(***************************************************************************)
(* Object, Deriv, partial and grav (nbody.rs 24-52)                        *)
(***************************************************************************)
Object(s, v, m) == [s |-> s, v |-> v, m |-> m]

Deriv(ds, dv) == [ds |-> ds, dv |-> dv]

\* #[derive(Default)] for Deriv: the zero vector pair
DerivDefault == Deriv(VZero, VZero)

\* an advance that also rescales the mass
partialTouchesMass(o, d, dt) ==
    Object(vadd(o.s, vscale(d.ds, dt)), vadd(o.v, vscale(d.dv, dt)),
           fadd(o.m, dt))

\* fn partial(o, d, dt)
partial(o, d, dt) ==
    Object(vadd(o.s, vscale(d.ds, dt)), vadd(o.v, vscale(d.dv, dt)), o.m)

\* const G, in the model's units of mass: 1.0
G == FOne

\* fn grav(a, b): the gravitational acceleration that b exerts on a
grav(a, b) ==
    LET ba  == vsub(b.s, a.s)
        rsq == normsq(ba)
        mag == fdiv(fmul(G, b.m), rsq)
    IN  vscale(vscale(ba, mag), fdiv(FOne, fsqrt(rsq)))

(***************************************************************************)
(* diff (nbody.rs 54-81).  Bodies are numbered 1..n here and 0..n-1 in the *)
(* source, so take(i) of the source is Take(new, i - 1) and skip(i + 1) is *)
(* Skip(new, i).                                                           *)
(***************************************************************************)
Min(a, b) == IF a < b THEN a ELSE b

\* Iterator::take: the first k elements
Take(seq, k) == SubSeq(seq, 1, Min(k, Len(seq)))

\* Iterator::skip: all but the first k elements
Skip(seq, k) == SubSeq(seq, k + 1, Len(seq))

\* the identity handed to reduce: || vec2::ZERO
ReduceIdentity == VZero

\* .reduce(|| vec2::ZERO, |a, v| a + v) run on one thread, left to right
RECURSIVE Reduce(_)
Reduce(seq) ==
    IF seq = << >> THEN ReduceIdentity
    ELSE vadd(Reduce(SubSeq(seq, 1, Len(seq) - 1)), seq[Len(seq)])

\* the same reduce with the sequence split once at k between two threads
ReduceAt(seq, k) == vadd(Reduce(Take(seq, k)), Reduce(Skip(seq, k)))

\* .map(|b| grav(a, b)) over a slice of the partial state
GravOn(a, bs) == [j \in 1 .. Len(bs) |-> grav(a, bs[j])]

\* the number of leading bodies the second reduction skips for body i
SkipCountKeepsSelf(i) == i - 1

SkipCount(i) == i

\* lines 56-59: the partial state, zip stopping at the shorter input
DiffPartial(init, dt, derivs) ==
    [i \in 1 .. Min(Len(init), Len(derivs)) |-> partial(init[i], derivs[i], dt)]

\* lines 64-73: the net acceleration of body i, the reductions split at kl, kr
AccelAt(new, i, kl, kr) ==
    vadd(ReduceAt(GravOn(new[i], Take(new, i - 1)), kl),
         ReduceAt(GravOn(new[i], Skip(new, SkipCount(i))), kr))

\* the net acceleration of body i evaluated sequentially
Accel(new, i) == AccelAt(new, i, 0, 0)

\* lines 76-79: the derivative of body i
DerivOf(new, i, a) == Deriv(new[i].v, a)

\* fn diff(init, t, dt, derivs), evaluated sequentially
diff(init, t, dt, derivs) ==
    LET new == DiffPartial(init, dt, derivs)
    IN  [i \in 1 .. Len(new) |-> DerivOf(new, i, Accel(new, i))]

(***************************************************************************)
(* weight and integrate (nbody.rs 83-101)                                  *)
(***************************************************************************)
\* a combination that weights the four stages equally
weightEqual(a, b, c, d) ==
    vscale(vadd(vadd(a, vadd(b, c)), d), fdiv(FOne, Lit(4)))

\* fn weight(a, b, c, d) { (a + (b + c)*2.0 + d) * (1.0/6.0) }
weight(a, b, c, d) ==
    vscale(vadd(vadd(a, vscale(vadd(b, c), Lit(2))), d), fdiv(FOne, Lit(6)))

\* the literal 0.5
Half == FScale \div 2

\* a vector of defaults one short of the state
ZeroDerivsShort(n) == [i \in 1 .. n - 1 |-> DerivDefault]

\* vec![Deriv::default(); state.len()]
ZeroDerivs(n) == [i \in 1 .. n |-> DerivDefault]

\* lines 88-91: the four stages of integrate
Stages(state, t, dt) ==
    LET a == diff(state, t, FZero, ZeroDerivs(Len(state)))
        b == diff(state, t, fmul(Half, dt), a)
        c == diff(state, t, fmul(Half, dt), b)
        d == diff(state, t, dt, c)
    IN  [z |-> << >>, a |-> a, b |-> b, c |-> c, d |-> d]

MinLen(k, state) ==
    Min(Min(Len(k.a), Len(k.b)), Min(Min(Len(k.c), Len(k.d)), Len(state)))

\* lines 93-100: the weighted derivative of each body, applied to the state
Combine(state, k, dt) ==
    [i \in 1 .. MinLen(k, state) |->
        partial(state[i],
                Deriv(weight(k.a[i].ds, k.b[i].ds, k.c[i].ds, k.d[i].ds),
                      weight(k.a[i].dv, k.b[i].dv, k.c[i].dv, k.d[i].dv)),
                dt)]

\* fn integrate(state, t, dt)
integrate(state, t, dt) == Combine(state, Stages(state, t, dt), dt)

(***************************************************************************)
(* State.                                                                  *)
(***************************************************************************)
VARIABLES
    \* an application of the integer algebra: type, operands, exponent,
    \* operation and its results
    aty, ax, ay, an, aop, ares,
    \* one call of diff: its arguments, the partial state new, the stage the
    \* call is in, the tasks of the stage that have completed, the output
    \* vector, and history: writes to each output slot, the input as passed
    dinit, dtime, ddt, dderivs, dnew, dpc, ddone, dout, dwrites, dinit0,
    \* the simulation: state and t of main, and history of the last call of
    \* integrate: its input prev, its step pdt and time pt, its stages k,
    \* the number of calls, the state read at startup
    state, t, prev, pdt, pt, k, calls, state0,
    \* the driver: accumulator, sub-step counter i, time multiplier, movement
    \* flags, the view, position in the loop, frames and events so far
    acc, li, mult, up, left, down, right, view, pc, frame, nev,
    \* the frame time last read from the clock, and history: acc and t as
    \* the frame found them, the movement keys now held down
    frame_time, accStart, tStart, held

algVars == <<aty, ax, ay, an, aop, ares>>

diffVars == <<dinit, dtime, ddt, dderivs, dnew, dpc, ddone, dout, dwrites, dinit0>>

simVars == <<state, t, prev, pdt, pt, k, calls, state0>>

drvVars ==
    <<acc, li, mult, up, left, down, right, view, pc, frame, nev,
      frame_time, accStart, tStart, held>>

vars == <<algVars, diffVars, simVars, drvVars>>

(***************************************************************************)
(* Inputs.                                                                 *)
(***************************************************************************)
\* bodies of an initial state; a body chosen twice gives coincident bodies
SampleBodies ==
    { Object(vec2(Lit(0), Lit(0)), vec2(Lit(0), Lit(0)), Lit(1)),
      Object(vec2(Lit(2), Lit(0)), vec2(Lit(0), Lit(1)), Lit(2)),
      Object(vec2(Lit(0), Lit(3)), vec2(0 - Lit(1), Lit(0)), Lit(1)) }

\* step sizes handed to integrate and diff
SampleDts == { 2, Lit(1) }

\* base derivatives handed to diff
SampleDerivs ==
    { DerivDefault,
      Deriv(vec2(Lit(1), Lit(0)), vec2(Lit(0), 0 - Lit(1))),
      Deriv(vec2(NaN, PosInf), vec2(NegInf, Lit(1))) }

States(n) == [1 .. n -> SampleBodies]

NoStages == [z |-> << >>, a |-> << >>, b |-> << >>, c |-> << >>, d |-> << >>]

(***************************************************************************)
(* Parts of the state a specification does not use stay as they start.     *)
(***************************************************************************)
AlgIdle ==
    /\ aty = "u8" /\ ax = 0 /\ ay = 0 /\ an = 0 /\ aop = "none"
    /\ ares = [r |-> 0, viaDefault |-> 0]

DiffIdle ==
    /\ dinit = << >> /\ dtime = 0 /\ ddt = 0 /\ dderivs = << >>
    /\ dnew = << >> /\ dpc = "idle" /\ ddone = {} /\ dout = << >>
    /\ dwrites = << >> /\ dinit0 = << >>

SimIdle ==
    /\ state = << >> /\ t = 0 /\ prev = << >> /\ pdt = 0 /\ pt = 0
    /\ k = NoStages /\ calls = 0 /\ state0 = << >>

DrvIdle ==
    /\ acc = 0 /\ li = 0 /\ mult = 0
    /\ up = FALSE /\ left = FALSE /\ down = FALSE /\ right = FALSE
    /\ view = [x |-> 0, y |-> 0, step |-> 0]
    /\ pc = "idle" /\ frame = 0 /\ nev = 0
    /\ frame_time = 0 /\ accStart = 0 /\ tStart = 0 /\ held = {}

(***************************************************************************)
(* integrate as a pure function: the state is drawn from the samples and   *)
(* integrate is applied to it with sampled steps.                          *)
(***************************************************************************)
\* state = integrate(state.as_slice(), t, dtv); t += dtv  (lines 232, 234)
IntegrateCall(dtv) ==
    /\ prev' = state
    /\ pdt' = dtv
    /\ pt' = t
    /\ k' = [Stages(state, t, dtv) EXCEPT !.z = ZeroDerivs(Len(state))]
    /\ state' = integrate(state, t, dtv)
    /\ t' = fadd(t, dtv)
    /\ calls' = calls + 1
    /\ UNCHANGED state0

SimInit ==
    /\ \E n \in 1 .. MaxBodies : state \in States(n)
    /\ state0 = state /\ prev = state
    /\ t = 0 /\ pdt = 0 /\ pt = 0 /\ k = NoStages /\ calls = 0
    /\ AlgIdle /\ DiffIdle /\ DrvIdle

SimStep ==
    /\ calls < MaxCalls
    /\ \E dtv \in SampleDts : IntegrateCall(dtv)
    /\ UNCHANGED <<algVars, diffVars, drvVars>>

SimNext == SimStep

SpecSim == SimInit /\ [][SimNext]_vars

(***************************************************************************)
(* One call of diff under rayon (nbody.rs 54-81).  Each of the two         *)
(* collects is a fork-join stage with one task per body; the tasks of a    *)
(* stage run in any order, each reduction of a task may be split between   *)
(* threads, and a stage ends when all of its tasks have completed.         *)
(***************************************************************************)
\* base derivatives of a diff call
DiffDerivs ==
    { Deriv(vec2(Lit(1), Lit(0)), vec2(Lit(0), 0 - Lit(1))),
      Deriv(vec2(NaN, PosInf), vec2(NegInf, Lit(1))) }

\* sub-steps and times of a diff call
DiffDts == { FZero, Lit(1) }

\* a slot of a collected vector that no task has written yet
NoObject == Object(VZero, VZero, FZero)

\* collect ends early, when any one task has completed
JoinReadyAny(done, n) == done # {}

\* collect returns when every task of the stage has completed
JoinReady(done, n) == done = 1 .. n

DiffInit ==
    /\ \E n \in 1 .. MaxBodies :
          /\ dinit \in States(n)
          /\ dderivs \in [1 .. n -> DiffDerivs]
          /\ dnew = [i \in 1 .. n |-> NoObject]
          /\ dout = [i \in 1 .. n |-> DerivDefault]
          /\ dwrites = [i \in 1 .. n |-> 0]
    /\ dtime \in DiffDts
    /\ ddt \in DiffDts
    /\ dinit0 = dinit
    /\ dpc = "partial"
    /\ ddone = {}
    /\ AlgIdle /\ SimIdle /\ DrvIdle

\* lines 56-59, the task of body i: .map(|(o, d)| partial(o, d, dt))
PartialTask(i) ==
    /\ dpc = "partial"
    /\ i \notin ddone
    /\ dnew' = [dnew EXCEPT ![i] = partial(dinit[i], dderivs[i], ddt)]
    /\ ddone' = ddone \cup {i}
    /\ UNCHANGED <<dinit, dtime, ddt, dderivs, dpc, dout, dwrites, dinit0, algVars, simVars, drvVars>>

\* line 59: .collect::<Vec<Object>>() returns
JoinPartial ==
    /\ dpc = "partial"
    /\ JoinReady(ddone, Len(dinit))
    /\ dpc' = "accel"
    /\ ddone' = {}
    /\ UNCHANGED <<dinit, dtime, ddt, dderivs, dnew, dout, dwrites, dinit0, algVars, simVars, drvVars>>

\* lines 62-79, the task of body i: its net acceleration, zipped with its
\* velocity and written to slot i of the output
AccelTask(i) ==
    /\ dpc = "accel"
    /\ i \notin ddone
    /\ \E kl \in 0 .. i - 1, kr \in 0 .. Len(dnew) - i :
          dout' = [dout EXCEPT ![i] = DerivOf(dnew, i, AccelAt(dnew, i, kl, kr))]
    /\ dwrites' = [dwrites EXCEPT ![i] = @ + 1]
    /\ ddone' = ddone \cup {i}
    /\ UNCHANGED <<dinit, dtime, ddt, dderivs, dnew, dpc, dinit0, algVars, simVars, drvVars>>

\* line 80: .collect() returns, and diff with it
JoinAccel ==
    /\ dpc = "accel"
    /\ JoinReady(ddone, Len(dnew))
    /\ dpc' = "done"
    /\ UNCHANGED <<dinit, dtime, ddt, dderivs, dnew, ddone, dout, dwrites, dinit0, algVars, simVars, drvVars>>

DiffNext ==
    \/ \E i \in 1 .. Len(dinit) : PartialTask(i)
    \/ JoinPartial
    \/ \E i \in 1 .. Len(dinit) : AccelTask(i)
    \/ JoinAccel

SpecDiff == DiffInit /\ [][DiffNext]_vars

(***************************************************************************)
(* The integer instances of Additive and Ring applied to operands of the   *)
(* type (math.rs 5-74).  Each result is recorded beside the value the      *)
(* trait's default definition gives for the same operands.                 *)
(***************************************************************************)
\* second operands: the bit patterns at the ends and the middle of the range
SecondOperands(ty) ==
    { WrapT(ty, v) : v \in {0, 1, 2, Modulus \div 2 - 1, Modulus \div 2, Modulus - 1} }

AlgInit ==
    /\ aty \in IntTypes
    /\ ax \in IntDom(aty)
    /\ ay \in SecondOperands(aty)
    /\ an = 0
    /\ aop = "none"
    /\ ares = [r |-> 0, viaDefault |-> 0]
    /\ DiffIdle /\ SimIdle /\ DrvIdle

\* x.neg(), beside ZERO.sub(x)
AlgNeg ==
    /\ aop = "none"
    /\ aop' = "neg"
    /\ ares' = [r |-> ineg(aty, ax), viaDefault |-> DefaultNeg(aty, ax)]
    /\ UNCHANGED <<aty, ax, ay, an, diffVars, simVars, drvVars>>

\* x.sub(y), beside x.add(y.neg())
AlgSub ==
    /\ aop = "none"
    /\ aop' = "sub"
    /\ ares' = [r |-> isub(aty, ax, ay), viaDefault |-> DefaultSub(aty, ax, ay)]
    /\ UNCHANGED <<aty, ax, ay, an, diffVars, simVars, drvVars>>

\* ZERO.add(x), beside x.add(x.neg())
AlgAdd ==
    /\ aop = "none"
    /\ aop' = "add"
    /\ ares' = [r |-> iadd(aty, IZero, ax),
                viaDefault |-> iadd(aty, ax, ineg(aty, ax))]
    /\ UNCHANGED <<aty, ax, ay, an, diffVars, simVars, drvVars>>

\* x.pow(n), beside the trait's default pow
AlgPow ==
    /\ aop = "none"
    /\ aop' = "pow"
    /\ \E n \in 0 .. MaxExp :
          /\ an' = n
          /\ ares' = [r |-> ipow(aty, ax, n), viaDefault |-> DefaultPow(aty, ax, n)]
    /\ UNCHANGED <<aty, ax, ay, diffVars, simVars, drvVars>>

AlgNext ==
    \/ AlgNeg
    \/ AlgSub
    \/ AlgAdd
    \/ AlgPow

SpecAlg == AlgInit /\ [][AlgNext]_vars

(***************************************************************************)
(* The driver loop of main (nbody.rs 177-250).  Wall-clock time is counted *)
(* in ticks of 1/2048 s; mult is counted in units of 5e5 and the view's    *)
(* step, 0.001 of its size, in units of half its first value; neither is   *)
(* halved below one unit.                                                  *)
(***************************************************************************)
\* let mut dt = 1.0 / 1024.0, in ticks
DtTicks == 2

\* let mut mult = 1.0e6, in units of 5e5
InitMult == 2

\* the view's size 2r times 0.001, in view units
InitStep == 2

\* while acc >= dt && i < 5
MaxSubSteps == 5

\* frame times the clock returns, in ticks: half of dt, and 1/60 s, the
\* frame rate limit of line 115
FrameTimes == {1, 34}

\* the state read from standard input at startup: one moving body
InputStates ==
    { << Object(vec2(Lit(2), Lit(0)), vec2(Lit(1), Lit(1)), Lit(2)) >> }

Keys == {"Comma", "Period", "LShift", "LControl", "W", "A", "S", "D", "Other"}

MoveKeys == {"W", "A", "S", "D"}

DrvInit ==
    /\ state \in InputStates
    /\ state0 = state /\ prev = state
    /\ t = 0 /\ pdt = 0 /\ pt = 0 /\ k = NoStages /\ calls = 0
    /\ acc = 0 /\ li = 0 /\ mult = InitMult
    /\ up = FALSE /\ left = FALSE /\ down = FALSE /\ right = FALSE
    /\ view = [x |-> 0, y |-> 0, step |-> InitStep]
    /\ pc = "events" /\ frame = 0 /\ nev = 0
    /\ frame_time = 0 /\ accStart = 0 /\ tStart = 0 /\ held = {}
    /\ AlgIdle /\ DiffIdle

\* Event::Closed => return
Closed ==
    /\ pc = "events"
    /\ nev < MaxEvents
    /\ pc' = "exit"
    /\ nev' = nev + 1
    /\ UNCHANGED <<acc, li, mult, up, left, down, right, view, frame,
                   frame_time, accStart, tStart, held>>
    /\ UNCHANGED <<algVars, diffVars, simVars>>

\* lines 193-206: Event::KeyPressed
KeyPressed(code) ==
    /\ pc = "events"
    /\ nev < MaxEvents
    /\ code = "Comma" => mult % 2 = 0
    /\ code = "LShift" => view.step % 2 = 0
    /\ mult' = CASE code = "Comma" -> mult \div 2
                 [] code = "Period" -> mult * 2
                 [] OTHER -> mult
    /\ view' = CASE code = "LShift" -> [view EXCEPT !.step = @ \div 2]
                 [] code = "LControl" -> [view EXCEPT !.step = @ * 2]
                 [] OTHER -> view
    /\ up' = IF code = "W" THEN TRUE ELSE up
    /\ left' = IF code = "A" THEN TRUE ELSE left
    /\ down' = IF code = "S" THEN TRUE ELSE down
    /\ right' = IF code = "D" THEN TRUE ELSE right
    /\ held' = IF code \in MoveKeys THEN held \cup {code} ELSE held
    /\ nev' = nev + 1
    /\ UNCHANGED <<acc, li, pc, frame, frame_time, accStart, tStart>>
    /\ UNCHANGED <<algVars, diffVars, simVars>>

\* lines 207-216: Event::KeyReleased
KeyReleased(code) ==
    /\ pc = "events"
    /\ nev < MaxEvents
    /\ up' = IF code = "W" THEN FALSE ELSE up
    /\ left' = IF code = "A" THEN FALSE ELSE left
    /\ right' = IF code = "S" THEN FALSE ELSE right
    /\ down' = IF code = "D" THEN FALSE ELSE down
    /\ held' = held \ {code}
    /\ nev' = nev + 1
    /\ UNCHANGED <<acc, li, mult, view, pc, frame, frame_time, accStart, tStart>>
    /\ UNCHANGED <<algVars, diffVars, simVars>>

\* line 217: any other event
OtherEvent ==
    /\ pc = "events"
    /\ nev < MaxEvents
    /\ nev' = nev + 1
    /\ UNCHANGED <<acc, li, mult, up, left, down, right, view, pc, frame,
                   frame_time, accStart, tStart, held>>
    /\ UNCHANGED <<algVars, diffVars, simVars>>

\* lines 220-225: the view moves by 0.001 of its size for each flag set
Moved(v) ==
    LET x1 == IF left THEN v.x - v.step ELSE v.x
        x2 == IF right THEN x1 + v.step ELSE x1
        y1 == IF up THEN v.y - v.step ELSE v.y
        y2 == IF down THEN y1 + v.step ELSE y1
    IN  [v EXCEPT !.x = x2, !.y = y2]

\* lines 220-230: the events are exhausted; move the view, read the clock
BeginFrame ==
    /\ pc = "events"
    /\ frame < MaxFrames
    /\ view' = Moved(view)
    /\ \E ft \in FrameTimes :
          /\ frame_time' = ft
          /\ acc' = acc + ft
    /\ accStart' = acc
    /\ tStart' = t
    /\ li' = 0
    /\ pc' = "loop"
    /\ UNCHANGED <<mult, up, left, down, right, frame, nev, held>>
    /\ UNCHANGED <<algVars, diffVars, simVars>>

\* a loop condition without the cap on sub-steps
LoopCondNoCap(a, n) == a >= DtTicks

\* line 231: acc >= dt && i < 5
LoopCond(a, n) == a >= DtTicks /\ n < MaxSubSteps

\* lines 231-236: one pass of the while loop
SubStep ==
    /\ pc = "loop"
    /\ LoopCond(acc, li)
    /\ IntegrateCall(DtTicks * mult)
    /\ acc' = acc - DtTicks
    /\ li' = li + 1
    /\ UNCHANGED <<mult, up, left, down, right, view, pc, frame, nev,
                   frame_time, accStart, tStart, held>>
    /\ UNCHANGED <<algVars, diffVars>>

\* lines 238-249: the loop has ended; draw the state
Render ==
    /\ pc = "loop"
    /\ ~LoopCond(acc, li)
    /\ pc' = "events"
    /\ frame' = frame + 1
    /\ UNCHANGED <<acc, li, mult, up, left, down, right, view, nev,
                   frame_time, accStart, tStart, held>>
    /\ UNCHANGED <<algVars, diffVars, simVars>>

Next ==
    \/ Closed
    \/ \E code \in Keys : KeyPressed(code)
    \/ \E code \in Keys : KeyReleased(code)
    \/ OtherEvent
    \/ BeginFrame
    \/ SubStep
    \/ Render

Init == DrvInit

Spec == Init /\ [][Next]_vars

(***************************************************************************)
(* Reference definitions used by the properties: the net acceleration as a *)
(* sum over a set of body indices, and RK4 written out per component.      *)
(***************************************************************************)
Others(n, i) == (1 .. n) \ {i}

\* the sum of grav(new[i], new[j]) over the indices j in S
RECURSIVE SumOver(_, _, _)
SumOver(new, i, S) ==
    IF S = {} THEN vec2(0, 0)
    ELSE LET j == CHOOSE j \in S : TRUE
         IN  vadd(grav(new[i], new[j]), SumOver(new, i, S \ {j}))

\* o advanced by h times d: position += ds*h, velocity += dv*h
Advanced(o, d, h) ==
    [s |-> [x |-> fadd(o.s.x, fmul(d.ds.x, h)), y |-> fadd(o.s.y, fmul(d.ds.y, h))],
     v |-> [x |-> fadd(o.v.x, fmul(d.dv.x, h)), y |-> fadd(o.v.y, fmul(d.dv.y, h))],
     m |-> o.m]

\* the derivative field of st offset by h times base
Field(st, h, base) ==
    LET new == [j \in 1 .. Len(st) |-> Advanced(st[j], base[j], h)]
    IN  [i \in 1 .. Len(st) |->
            [ds |-> new[i].v, dv |-> SumOver(new, i, Others(Len(st), i))]]

\* (k1 + 2*k2 + 2*k3 + k4) / 6
Rk4Mean(k1, k2, k3, k4) ==
    fdiv(fadd(fadd(fadd(k1, fmul(Lit(2), k2)), fmul(Lit(2), k3)), k4), Lit(6))

Rk4MeanVec(u1, u2, u3, u4) ==
    [x |-> Rk4Mean(u1.x, u2.x, u3.x, u4.x), y |-> Rk4Mean(u1.y, u2.y, u3.y, u4.y)]

FinVec(u) == IsFin(u.x) /\ IsFin(u.y)

FinObject(o) == FinVec(o.s) /\ FinVec(o.v) /\ IsFin(o.m)

(***************************************************************************)
(* Properties of integrate, under SpecSim.                                 *)
(***************************************************************************)
\* C1: the body count is fixed.  After any sequence of integrate calls the
\* state has as many bodies as the initial state; in the last call each of
\* the four diff calls received as many derivatives as the input has bodies
\* and returned as many, and body i of the output is body i of the input
\* advanced by its own weighted derivative.
C1_BodyCountFixed ==
    /\ Len(state) = Len(state0)
    /\ calls > 0 =>
          /\ Len(prev) = Len(state0)
          /\ \A s \in {"z", "a", "b", "c", "d"} : Len(k[s]) = Len(prev)
          /\ \A i \in 1 .. Len(state) :
                state[i] =
                    partial(prev[i],
                            Deriv(weight(k.a[i].ds, k.b[i].ds, k.c[i].ds, k.d[i].ds),
                                  weight(k.a[i].dv, k.b[i].dv, k.c[i].dv, k.d[i].dv)),
                            pdt)

\* two calls of integrate have run on a state of three bodies
C1_Witness == calls = 2 /\ Len(state) = 3 /\ Len(k.d) = 3

\* C2: mass is never mutated.  The mass of body i after any sequence of
\* integrate calls, and in the partial state of each of the four diff calls
\* of the last call, is the mass of body i in the initial state.
C2_MassNeverMutated ==
    /\ \A i \in 1 .. Len(state0) : state[i].m = state0[i].m
    /\ calls > 0 =>
          \A i \in 1 .. Len(state0) :
             /\ DiffPartial(prev, FZero, k.z)[i].m = state0[i].m
             /\ DiffPartial(prev, fmul(Half, pdt), k.a)[i].m = state0[i].m
             /\ DiffPartial(prev, fmul(Half, pdt), k.b)[i].m = state0[i].m
             /\ DiffPartial(prev, pdt, k.c)[i].m = state0[i].m

\* two calls have moved the first of at least two bodies
C2_Witness ==
    /\ calls = 2
    /\ Len(state) >= 2
    /\ FinObject(state[1])
    /\ state[1].s # state0[1].s

\* C3: integrate is the classic RK4 composition.  k1 is the field of the
\* input at offset 0 with zero derivatives, k2 and k3 the field of the input
\* at offset dt/2 with k1 and k2, k4 the field of the input at offset dt
\* with k3, and every body of the result is the body of the input advanced
\* by dt times (k1 + 2*k2 + 2*k3 + k4) / 6, in ds and in dv.
C3_ClassicRk4 ==
    calls > 0 =>
       /\ k.a = Field(prev, Lit(0), [i \in 1 .. Len(prev) |-> Deriv(vec2(0, 0), vec2(0, 0))])
       /\ k.b = Field(prev, fdiv(pdt, Lit(2)), k.a)
       /\ k.c = Field(prev, fdiv(pdt, Lit(2)), k.b)
       /\ k.d = Field(prev, pdt, k.c)
       /\ state =
             [i \in 1 .. Len(prev) |->
                 Advanced(prev[i],
                          [ds |-> Rk4MeanVec(k.a[i].ds, k.b[i].ds, k.c[i].ds, k.d[i].ds),
                           dv |-> Rk4MeanVec(k.a[i].dv, k.b[i].dv, k.c[i].dv, k.d[i].dv)],
                          pdt)]

\* a call on three bodies whose four stages differ and whose result is finite
C3_Witness ==
    /\ calls >= 1
    /\ Len(state) = 3
    /\ k.a # k.b /\ k.b # k.c /\ k.c # k.d
    /\ \A i \in 1 .. 3 : FinObject(state[i])
    /\ state # prev

(***************************************************************************)
(* Properties of diff, under SpecDiff.                                     *)
(***************************************************************************)
\* C4: when diff has returned, for every body i of the partial state dv[i]
\* is the sum of grav(partial[i], partial[j]) over exactly the j # i, and
\* ds[i] is the velocity of partial[i].
C4_NetAcceleration ==
    dpc = "done" =>
       \A i \in 1 .. Len(dnew) :
          /\ dout[i].dv = SumOver(dnew, i, Others(Len(dnew), i))
          /\ dout[i].ds = dnew[i].v

\* diff has returned for three bodies, the middle one with a finite, nonzero
\* net acceleration made of a body before it and a body after it
C4_Witness ==
    /\ dpc = "done"
    /\ Len(dnew) = 3
    /\ FinVec(dout[2].dv)
    /\ dout[2].dv # vec2(0, 0)
    /\ grav(dnew[2], dnew[1]) # vec2(0, 0)
    /\ grav(dnew[2], dnew[3]) # vec2(0, 0)

\* C5: for a single body diff returns dv = ZERO, whatever t, dt and the base
\* derivative are.
C5_SingleBodyZero ==
    (dpc = "done" /\ Len(dinit) = 1) => dout[1].dv = vec2(0, 0)

\* diff has returned for one body, with a nonzero t and dt and a base
\* derivative holding NaN and infinities
C5_Witness ==
    /\ dpc = "done"
    /\ Len(dinit) = 1
    /\ dtime # 0
    /\ ddt # 0
    /\ IsNaN(dderivs[1].ds.x)
    /\ IsInf(dderivs[1].dv.x)

\* C8: diff is fork-join without shared mutable state.  Under every
\* interleaving of its tasks the input is never written, the partial state
\* is complete and unwritten once the second stage runs, an output slot is
\* written by its own task alone and once, and diff returns only when all
\* tasks have completed, with the derivatives of the sequential evaluation.
C8_ForkJoin ==
    /\ dinit = dinit0
    /\ dpc \in {"accel", "done"} => dnew = DiffPartial(dinit0, ddt, dderivs)
    /\ \A i \in 1 .. Len(dinit0) :
          dwrites[i] = IF dpc \in {"accel", "done"} /\ i \in ddone THEN 1 ELSE 0
    /\ dpc = "done" =>
          /\ ddone = 1 .. Len(dinit0)
          /\ dout = diff(dinit0, dtime, ddt, dderivs)

\* diff has returned for three bodies with a finite, nonzero acceleration
C8_Witness ==
    /\ dpc = "done"
    /\ Len(dinit0) = 3
    /\ ddone = {1, 2, 3}
    /\ \E i \in 1 .. 3 : FinVec(dout[i].dv) /\ dout[i].dv # vec2(0, 0)

(***************************************************************************)
(* Properties of the integer algebra, under SpecAlg.                       *)
(***************************************************************************)
\* C6: the Additive laws hold for every integer instance, signed and
\* unsigned, modulo 2^w: negate(a) = sub(ZERO, a), sub(a, b) =
\* add(a, negate(b)), add(ZERO, a) = a and add(a, negate(a)) = ZERO.
C6_AdditiveLaws ==
    /\ aop = "neg" => ares.r = ares.viaDefault
    /\ aop = "sub" => ares.r = ares.viaDefault
    /\ aop = "add" => ares.r = ax /\ ares.viaDefault = IZero

\* C7: for every integer instance pow(x, n) is n multiplications by x folded
\* onto ONE, modulo 2^w: the override agrees with the trait's default, and
\* pow(x, 0) = ONE, pow(x, 1) = x, pow(x, 2) = mul(x, x).
C7_PowIsRepeatedMul ==
    aop = "pow" =>
       /\ ares.r = ares.viaDefault
       /\ an = 0 => ares.r = IOne
       /\ an = 1 => ares.r = ax
       /\ an = 2 => ares.r = imul(aty, ax, ax)

\* (-3)^5 = -243 has been computed in i8, where it wraps to 13
C7_Witness ==
    aop = "pow" /\ aty = "i8" /\ ax = 0 - 3 /\ an = 5 /\ ares.r = 13

(***************************************************************************)
(* Properties of the driver, under Spec.                                   *)
(***************************************************************************)
MaxFrameTime == CHOOSE m \in FrameTimes : \A f \in FrameTimes : f <= m

FrameOver == pc # "loop" /\ frame > 0

\* the accumulator and the sub-step counter during and after a frame's loop
SubStepAccounting ==
    /\ li \in 0 .. MaxSubSteps
    /\ acc >= 0
    /\ calls <= MaxSubSteps * frame + (IF pc = "loop" THEN li ELSE 0)
    /\ (pc = "loop" \/ FrameOver) => acc = accStart + frame_time - li * DtTicks
    /\ pc = "loop" => t = tStart + li * (DtTicks * mult)
    /\ FrameOver => (acc < DtTicks \/ li = MaxSubSteps)

\* C9, as amended: at most 5 integrate calls run in a frame, a call runs
\* only while acc >= dt, each call takes dt from acc and adds dt*mult to t,
\* acc is never negative, and after the loop acc < dt or 5 calls were made.
\* The cap bounds the calls of a frame, not the backlog: a frame whose frame
\* time exceeds 5*dt ends with more in acc than it began with.
C9_SubStepCap ==
    /\ SubStepAccounting
    /\ (FrameOver /\ frame_time > MaxSubSteps * DtTicks) => acc > accStart

\* the second frame of 1/60 s has ended after 5 calls with 48 ticks left
C9_Witness ==
    pc = "events" /\ frame = 2 /\ li = MaxSubSteps /\ calls = 10 /\ acc = 48

\* C9, as claimed: the same accounting, and the backlog in acc stays
\* bounded over any sequence of frames: a frame never ends with more in acc
\* than one frame can add to a remainder below dt.
C9_BacklogBounded ==
    /\ SubStepAccounting
    /\ FrameOver => acc < DtTicks + MaxFrameTime

\* C10: a KeyReleased event clears the flag that the KeyPressed event of the
\* same key sets (W: up, A: left, S: down, D: right), so a movement flag is
\* set only while its key is held, and with no movement key held all four
\* flags are false.
C10_ReleaseClearsFlag ==
    /\ "W" \notin held => ~up
    /\ "A" \notin held => ~left
    /\ "S" \notin held => ~down
    /\ "D" \notin held => ~right

=============================================================================
